---- MODULE Spec2Model ----
(***************************************************************************)
(* Model of sbm.c (System Boot Manager for the i.MX21 iROM boot monitor). *)
(*                                                                         *)
(* The state is the state of main(): the command line, the loop index,    *)
(* synced, entry, the position inside the running command, and what has   *)
(* been written to the serial port.  The device is the environment: every *)
(* read(fd,&response,4) returns a nondeterministic number of bytes and a  *)
(* nondeterministic word.                                                  *)
(*                                                                         *)
(* 32-bit unsigned values are tuples of four bytes, most significant byte *)
(* first: 0x56787856 is <<86,120,120,86>>.                                 *)
(***************************************************************************)
EXTENDS Integers, Sequences, FiniteSets, TLC

\* ------------------------------------------------------------------ bounds
\* Longest command line, counted in commands.
MaxQueue == 2
\* Largest image, counted in chunks of CHUNK_SIZE bytes.
MaxBlocks == 2
\* Most bytes typed at the console, and most bytes the device sends, while the
\* terminal runs.
MaxKeys == 2
MaxInbound == 2
\* Most read errors on the port while the terminal runs.
MaxErrors == 1

\* --------------------------------------------------------------- constants
CHUNK_SIZE == 4096
DEFAULT_HIGHSPEED == 921600
DEFAULT_TERMBAUD == 230400
\* B115200, the speed open_port configures.
OPEN_BAUD == 115200
\* 0x0505, 0x0202, 0x0404
IMX_SYNC == 1285
IMX_SREG == 514
IMX_DWNL == 1028
\* pckt.end = 0xaa of imx_run
END_RUN == 170
\* size of a response word, read(fd,&response,4)
WORD_LEN == 4

Zero32 == <<0, 0, 0, 0>>
\* 0xf0f0f0f0
SYNC_ACK == <<240, 240, 240, 240>>
\* 0x56787856
ACK_B == <<86, 120, 120, 86>>
\* 0x128a8a12
ACK_C == <<18, 138, 138, 18>>
\* 0x08888888 and 0x88888888
RUN_ACK_LO == <<8, 136, 136, 136>>
RUN_ACK_HI == <<136, 136, 136, 136>>
\* 0x1000A0A4 and 0x1000A0A8, the UART registers imx_set_baud writes
UART_DIVISOR == <<16, 0, 160, 164>>
UART_FIFO == <<16, 0, 160, 168>>
\* (10000)-1 = 0x0000270F
FIFO_VALUE == <<0, 0, 39, 15>>

\* ------------------------------------------------------- 32-bit arithmetic
\* SWAPDWORD(d): byte 0 to bits 24..31, byte 1 to 16..23, byte 2 to 8..15,
\* byte 3 to 0..7.
SWAPDWORD(d) == <<d[4], d[3], d[2], d[1]>>

\* w + n in unsigned int arithmetic (modulo 2^32), n a natural below 2^31.
Add32(w, n) ==
  LET lo == w[3] * 256 + w[4]
      hi == w[1] * 256 + w[2]
      slo == lo + (n % 65536)
      shi == hi + (n \div 65536) + (slo \div 65536)
      lo2 == slo % 65536
      hi2 == shi % 65536
  IN <<hi2 \div 256, hi2 % 256, lo2 \div 256, lo2 % 256>>

\* n - 1 in unsigned int arithmetic, n a natural below 2^31.
Dec32(n) == IF n = 0 THEN <<255, 255, 255, 255>> ELSE Add32(Zero32, n - 1)

\* ------------------------------------------------------------- the channel
\* struct imx_packet, as the fields are stored before write().
Packet(h, a, t, l, d, e) ==
  [kind |-> "packet", header |-> h, address |-> a, type |-> t,
   length |-> l, data |-> d, end |-> e, offset |-> 0, count |-> 0]

\* write(fd,data,to_write): to_write raw bytes of the image, read at offset off.
Payload(off, n) ==
  [kind |-> "payload", header |-> 0, address |-> Zero32, type |-> 0,
   length |-> Zero32, data |-> Zero32, end |-> 0, offset |-> off, count |-> n]

\* What a read(fd,&response,4) can return: n bytes (4 is a full word), and the
\* word they make when n = 4.
Words == {SYNC_ACK, ACK_B, ACK_C, RUN_ACK_LO, RUN_ACK_HI, Zero32}
ShortLens == {0, 3}
Reads == [n : {WORD_LEN}, word : Words] \cup [n : ShortLens, word : {Zero32}]

\* ------------------------------------------------------- protocol functions
\* The result of one imx_* call: the bytes it wrote, the reads it made, its
\* return value and the diagnostic it printed.
Result(f, w, r, v, m) == [fn |-> f, wr |-> w, rd |-> r, ret |-> v, msg |-> m]
NoCall == Result("none", <<>>, <<>>, 0, "")

\* The arguments of an imx_set_register call.
SetArgs(a, l, v, g) == [addr |-> a, len |-> l, value |-> v, ignore |-> g]
NoArgs == SetArgs(Zero32, 0, Zero32, FALSE)

\* Mutant of imx_sync: any full word is taken for the sync response.
imx_sync_anyword(r) ==
  LET pckt == Packet(IMX_SYNC, Zero32, 0, Zero32, Zero32, 0)
  IN IF r.n = WORD_LEN
       THEN Result("imx_sync", <<pckt>>, <<r>>, 0, "ok")
       ELSE Result("imx_sync", <<pckt>>, <<r>>, -1, "timeout")

\* Mutant of imx_sync: the number of bytes read is not looked at.
imx_sync_nolen(r) ==
  LET pckt == Packet(IMX_SYNC, Zero32, 0, Zero32, Zero32, 0)
  IN IF r.word = SYNC_ACK
       THEN Result("imx_sync", <<pckt>>, <<r>>, 0, "ok")
       ELSE Result("imx_sync", <<pckt>>, <<r>>, -1, "illegal response")

imx_sync(r) ==
  LET pckt == Packet(IMX_SYNC, Zero32, 0, Zero32, Zero32, 0)
  IN IF r.n = WORD_LEN
       THEN IF r.word = SYNC_ACK
              THEN Result("imx_sync", <<pckt>>, <<r>>, 0, "ok")
              ELSE Result("imx_sync", <<pckt>>, <<r>>, -1, "illegal response")
       ELSE Result("imx_sync", <<pckt>>, <<r>>, -1, "timeout")

\* Mutant of imx_set_register: the packet is written before the width is
\* checked.
imx_set_register_write_first(addr, len, value, ignore, rb, rc) ==
  LET pckt == Packet(IMX_SREG, SWAPDWORD(addr), len % 256, Zero32,
                     SWAPDWORD(value), 0)
      rds == IF rb.n # WORD_LEN THEN <<rb>> ELSE <<rb, rc>>
  IN IF len # 8 /\ len # 16 /\ len # 32
       THEN Result("imx_set_register", <<pckt>>, <<>>, -1,
                   "illegal register size")
       ELSE IF rb.n # WORD_LEN \/ rc.n # WORD_LEN
         THEN IF ignore
                THEN Result("imx_set_register", <<pckt>>, rds, 0, "ignored")
                ELSE Result("imx_set_register", <<pckt>>, rds, -1, "timeout")
         ELSE IF rb.word = ACK_B /\ rc.word = ACK_C
           THEN Result("imx_set_register", <<pckt>>, rds, 0, "ok")
           ELSE IF ignore
                  THEN Result("imx_set_register", <<pckt>>, rds, 0, "ignored")
                  ELSE Result("imx_set_register", <<pckt>>, rds, -1,
                              "illegal response")

\* Mutant of imx_set_register: only the first response word is compared.
imx_set_register_first_only(addr, len, value, ignore, rb, rc) ==
  LET pckt == Packet(IMX_SREG, SWAPDWORD(addr), len % 256, Zero32,
                     SWAPDWORD(value), 0)
      rds == IF rb.n # WORD_LEN THEN <<rb>> ELSE <<rb, rc>>
  IN IF len # 8 /\ len # 16 /\ len # 32
       THEN Result("imx_set_register", <<>>, <<>>, -1, "illegal register size")
       ELSE IF rb.n # WORD_LEN \/ rc.n # WORD_LEN
         THEN IF ignore
                THEN Result("imx_set_register", <<pckt>>, rds, 0, "ignored")
                ELSE Result("imx_set_register", <<pckt>>, rds, -1, "timeout")
         ELSE IF rb.word = ACK_B
           THEN Result("imx_set_register", <<pckt>>, rds, 0, "ok")
           ELSE IF ignore
                  THEN Result("imx_set_register", <<pckt>>, rds, 0, "ignored")
                  ELSE Result("imx_set_register", <<pckt>>, rds, -1,
                              "illegal response")

\* rb and rc are what the two reads return; the second read is made only if the
\* first returned 4 bytes (the || of line 194).
imx_set_register(addr, len, value, ignore, rb, rc) ==
  LET pckt == Packet(IMX_SREG, SWAPDWORD(addr), len % 256, Zero32,
                     SWAPDWORD(value), 0)
      rds == IF rb.n # WORD_LEN THEN <<rb>> ELSE <<rb, rc>>
  IN IF len # 8 /\ len # 16 /\ len # 32
       THEN Result("imx_set_register", <<>>, <<>>, -1, "illegal register size")
       ELSE IF rb.n # WORD_LEN \/ rc.n # WORD_LEN
         THEN IF ignore
                THEN Result("imx_set_register", <<pckt>>, rds, 0, "ignored")
                ELSE Result("imx_set_register", <<pckt>>, rds, -1, "timeout")
         ELSE IF rb.word = ACK_B /\ rc.word = ACK_C
           THEN Result("imx_set_register", <<pckt>>, rds, 0, "ok")
           ELSE IF ignore
                  THEN Result("imx_set_register", <<pckt>>, rds, 0, "ignored")
                  ELSE Result("imx_set_register", <<pckt>>, rds, -1,
                              "illegal response")

\* Mutant of ToWrite: every block is a full chunk.
ToWrite_full(size, off) == CHUNK_SIZE

\* to_write of one pass of the loop of imx_download.
ToWrite(size, off) ==
  IF size - off > CHUNK_SIZE THEN CHUNK_SIZE ELSE size - off

\* Mutant of download_block: the block is written before its header's response
\* is looked at.
download_block_payload_first(addr, size, off, r) ==
  LET to_write == IF size - off > CHUNK_SIZE THEN CHUNK_SIZE ELSE size - off
      pckt == Packet(IMX_DWNL, SWAPDWORD(Add32(addr, off)), 0,
                     SWAPDWORD(Add32(Zero32, to_write)), Zero32, 0)
      both == <<pckt, Payload(off, to_write)>>
  IN IF r.n # WORD_LEN
       THEN Result("imx_download", both, <<r>>, -1, "timeout")
       ELSE IF r.word # ACK_B
         THEN Result("imx_download", both, <<r>>, -1, "illegal response")
         ELSE Result("imx_download", both, <<r>>, 0, "block")

\* One pass of the loop of imx_download at offset off: the block header, its
\* response and, if that is the ack, the block's bytes.  ret is 0 when the loop
\* goes on and -1 when imx_download returns -1.
download_block(addr, size, off, r) ==
  LET to_write == ToWrite(size, off)
      pckt == Packet(IMX_DWNL, SWAPDWORD(Add32(addr, off)), 0,
                     SWAPDWORD(Add32(Zero32, to_write)), Zero32, 0)
  IN IF r.n # WORD_LEN
       THEN Result("imx_download", <<pckt>>, <<r>>, -1, "timeout")
       ELSE IF r.word # ACK_B
         THEN Result("imx_download", <<pckt>>, <<r>>, -1, "illegal response")
         ELSE Result("imx_download", <<pckt, Payload(off, to_write)>>, <<r>>,
                     0, "block")

\* Mutant of imx_run: the handshake packet is sent whatever the first word is.
imx_run_always_handshake(addr, rb, rd) ==
  LET pckt == Packet(IMX_DWNL, SWAPDWORD(addr), 0, Zero32, Zero32, END_RUN)
      sync == Packet(IMX_SYNC, Zero32, 0, Zero32, Zero32, 0)
  IN IF rb.n # WORD_LEN
       THEN Result("imx_run", <<pckt>>, <<rb>>, -1, "timeout")
       ELSE IF rd.n # WORD_LEN
         THEN Result("imx_run", <<pckt, sync>>, <<rb, rd>>, -1, "timeout")
         ELSE IF rb.word = ACK_B
                 /\ (rd.word = RUN_ACK_LO \/ rd.word = RUN_ACK_HI)
           THEN Result("imx_run", <<pckt, sync>>, <<rb, rd>>, 0, "ok")
           ELSE Result("imx_run", <<pckt, sync>>, <<rb, rd>>, -1,
                       "illegal response")

\* Mutant of imx_run: only 0x08888888 is taken for the handshake's response.
imx_run_lo_only(addr, rb, rd) ==
  LET pckt == Packet(IMX_DWNL, SWAPDWORD(addr), 0, Zero32, Zero32, END_RUN)
      sync == Packet(IMX_SYNC, Zero32, 0, Zero32, Zero32, 0)
  IN IF rb.n # WORD_LEN
       THEN Result("imx_run", <<pckt>>, <<rb>>, -1, "timeout")
       ELSE IF rb.word = ACK_B
         THEN IF rd.n # WORD_LEN
                THEN Result("imx_run", <<pckt, sync>>, <<rb, rd>>, -1,
                            "timeout")
                ELSE IF rd.word = RUN_ACK_LO
                  THEN Result("imx_run", <<pckt, sync>>, <<rb, rd>>, 0, "ok")
                  ELSE Result("imx_run", <<pckt, sync>>, <<rb, rd>>, -1,
                              "illegal response")
         ELSE Result("imx_run", <<pckt>>, <<rb>>, -1, "illegal response")

\* rb and rd are what the two reads return; the second packet is written and
\* the second read made only after a first word of 0x56787856.
imx_run(addr, rb, rd) ==
  LET pckt == Packet(IMX_DWNL, SWAPDWORD(addr), 0, Zero32, Zero32, END_RUN)
      sync == Packet(IMX_SYNC, Zero32, 0, Zero32, Zero32, 0)
  IN IF rb.n # WORD_LEN
       THEN Result("imx_run", <<pckt>>, <<rb>>, -1, "timeout")
       ELSE IF rb.word = ACK_B
         THEN IF rd.n # WORD_LEN
                THEN Result("imx_run", <<pckt, sync>>, <<rb, rd>>, -1,
                            "timeout")
                ELSE IF rd.word = RUN_ACK_LO \/ rd.word = RUN_ACK_HI
                  THEN Result("imx_run", <<pckt, sync>>, <<rb, rd>>, 0, "ok")
                  ELSE Result("imx_run", <<pckt, sync>>, <<rb, rd>>, -1,
                              "illegal response")
         ELSE Result("imx_run", <<pckt>>, <<rb>>, -1, "illegal response")

\* The register writes of imx_setup_system, in order.
SetupSequence ==
  << <<  <<16, 0, 0, 0>>,       <<0, 4, 3, 4>>         >>,
     <<  <<16, 2, 0, 0>>,       Zero32                 >>,
     <<  <<16, 0, 0, 4>>,       <<255, 251, 252, 251>> >>,
     <<  <<16, 2, 0, 4>>,       <<255, 255, 255, 255>> >>,
     <<  <<223, 0, 16, 8>>,     <<0, 0, 32, 0>>        >>,
     <<  <<223, 0, 16, 12>>,    <<17, 17, 133, 1>>     >>,
     <<  <<16, 1, 85, 32>>,     Zero32                 >>,
     <<  <<16, 1, 85, 56>>,     Zero32                 >>,
     <<  <<16, 3, 243, 0>>,     <<0, 18, 52, 86>>      >>,
     <<  <<223, 0, 0, 0>>,      <<146, 18, 147, 153>>  >>,
     <<  <<192, 32, 0, 0>>,     Zero32                 >>,
     <<  <<223, 0, 0, 0>>,      <<162, 18, 3, 0>>      >>,
     <<  <<192, 0, 0, 0>>,      Zero32                 >>,
     <<  <<192, 0, 0, 0>>,      Zero32                 >>,
     <<  <<192, 0, 0, 0>>,      Zero32                 >>,
     <<  <<192, 0, 0, 0>>,      Zero32                 >>,
     <<  <<192, 0, 0, 0>>,      Zero32                 >>,
     <<  <<192, 0, 0, 0>>,      Zero32                 >>,
     <<  <<192, 0, 0, 0>>,      Zero32                 >>,
     <<  <<192, 0, 0, 0>>,      Zero32                 >>,
     <<  <<223, 0, 0, 0>>,      <<178, 18, 3, 0>>      >>,
     <<  <<192, 17, 152, 0>>,   Zero32                 >>,
     <<  <<223, 0, 0, 0>>,      <<130, 18, 243, 57>>   >> >>

\* ------------------------------------------------------------ command line
\* One entry per pass of the loop of main: the command word argv[i] and the
\* parameters the pass parses.  args = FALSE is a set or download with too few
\* words after it.  addr = Zero32 of run and baud = 0 of baud and terminal
\* stand for a parameter that is missing or that strtoul turns into 0.
Cmd(o, a, s, v, b, g) ==
  [op |-> o, addr |-> a, size |-> s, value |-> v, baud |-> b, args |-> g]
NoCmd == Cmd("", Zero32, 0, Zero32, 0, TRUE)

\* 0xC0000000, the start of the SDRAM
RAM == <<192, 0, 0, 0>>
\* 0xFFFFF000, the last 4096 bytes of the address space
TOP == <<255, 255, 240, 0>>
Widths == {8, 16, 24, 32}
Commands ==
  {Cmd("sync", Zero32, 0, Zero32, 0, TRUE),
   Cmd("setup", Zero32, 0, Zero32, 0, TRUE),
   Cmd("terminal", Zero32, 0, Zero32, 0, TRUE),
   Cmd("unknown", Zero32, 0, Zero32, 0, TRUE),
   Cmd("set", Zero32, 0, Zero32, 0, FALSE),
   Cmd("download", Zero32, 0, Zero32, 0, FALSE)}
  \cup {Cmd("set", UART_DIVISOR, w, FIFO_VALUE, 0, TRUE) : w \in Widths}
  \cup {Cmd("download", a, 0, Zero32, 0, TRUE) : a \in {Zero32, RAM, TOP}}
  \cup {Cmd("run", a, 0, Zero32, 0, TRUE) : a \in {Zero32, RAM}}
  \cup {Cmd("baud", Zero32, 0, Zero32, b, TRUE) : b \in {0, OPEN_BAUD}}

\* The images download can be given: a size in bytes, or -1 for a file fopen
\* cannot open.
Sizes ==
  {0} \cup {b * CHUNK_SIZE + d : b \in 0..(MaxBlocks - 1),
                                  d \in {1, CHUNK_SIZE}}
Files == Sizes \cup {-1}

\* The second read of a call that reads twice: made only after a full first one.
Second(rb) == IF rb.n = WORD_LEN THEN Reads ELSE {rb}

VARIABLES
  argv,      \* the commands of the command line main has reached, in order
  i,         \* index of the command the loop of main is at
  cmd,       \* the command being executed (cmd = argv[i])
  synced,    \* main's synced
  entry,     \* main's entry
  pc,        \* where the program is: "loop", "cmd", inside a command, "done"
  quit,      \* why the loop was left ("" while it runs)
  writes,    \* everything the commands have written to the port, in order
  bauds,     \* the rates set_baud was called with, in order
  call,      \* the result of the imx_* call that has just returned
  args,      \* the arguments of that call, when it is imx_set_register
  dl,        \* imx_download's addr, size and i; base is how much had been
             \* written to the port when it was called
  progress,  \* the offsets imx_download has printed
  step,      \* the next register write of imx_setup_system
  baud,      \* the baud rate of the running baud command
  divisor,   \* what the divisor write of the running imx_set_baud returned
  term       \* the state of terminal() and term_recv(), see NoTerm

vars ==
  <<argv, i, cmd, synced, entry, pc, quit, writes, bauds, call, args, dl,
    progress, step, baud, divisor, term>>

NoDl == [addr |-> Zero32, size |-> 0, i |-> 0, base |-> 0]

\* The terminal before terminal() is called.
\*   fasync   fcntl(fd,F_SETFL,FASYNC) is done: input on the port raises SIGIO
\*   saio     sigaction(SIGIO,&saio,NULL) is done: term_recv is the handler
\*   sigio    a SIGIO is pending
\*   typed    the bytes typed at the console, in order; read(0,&c,1) has
\*            returned the first nread of them
\*   c        the byte main has read and not yet written, -1 when there is none
\*   sent     the bytes terminal() has written to the port, in order
\*   arrived  the bytes that have arrived on the port, in order;
\*            read(port,&buf,1) has returned the first taken of them
\*   recv     where term_recv is: "idle" (not running), "read" or "write"
\*   buf      term_recv's buf
\*   out      the bytes written to standard output, in order
\*   errors   how often "sbm: Read error" was printed; errat is how many bytes
\*            had arrived when it was printed first (-1: never)
NoTerm ==
  [fasync |-> FALSE, saio |-> FALSE, sigio |-> FALSE,
   typed |-> <<>>, nread |-> 0, c |-> -1, sent |-> <<>>,
   arrived |-> <<>>, taken |-> 0, recv |-> "idle", buf |-> -1, out |-> <<>>,
   errors |-> 0, errat |-> -1]

Init ==
  /\ argv = <<>>
  /\ i = 1
  /\ cmd = NoCmd
  /\ synced = FALSE
  /\ entry = Zero32
  /\ pc = "loop"
  /\ quit = ""
  /\ writes = <<>>
  /\ bauds = <<>>
  /\ call = NoCall
  /\ args = NoArgs
  /\ dl = NoDl
  /\ progress = <<>>
  /\ step = 1
  /\ baud = 0
  /\ divisor = 0
  /\ term = NoTerm

\* cmd = argv[i]: the loop of main reads the next command of the line.
Fetch ==
  /\ pc = "loop" /\ Len(argv) < MaxQueue
  /\ \E c \in Commands :
       /\ argv' = Append(argv, c)
       /\ cmd' = c
  /\ pc' = "cmd"
  /\ UNCHANGED <<i, synced, entry, quit, writes, bauds, call, args, dl,
                 progress, step, baud, divisor, term>>

\* An imx_* call (or one pass of the loop of imx_download) has run: what it
\* wrote is on the port and its result is with its caller.
Returned(c, a) ==
  /\ call' = c
  /\ args' = a
  /\ writes' = writes \o c.wr

\* break: leave the loop.  What the failed call returned stays to be seen.
Break(why) ==
  /\ pc' = "done" /\ quit' = why /\ i' = i
  /\ UNCHANGED <<call, args, dl, progress, step, baud, divisor>>

\* continue: on to the next command.  The locals of the command are gone.
Continue ==
  /\ pc' = "loop" /\ quit' = quit /\ i' = i + 1
  /\ call' = NoCall /\ args' = NoArgs /\ dl' = NoDl /\ progress' = <<>>
  /\ step' = 1 /\ baud' = 0 /\ divisor' = 0

\* The commands that start with if(!synced) { imx_sync ... }.
NeedSync == {"set", "download", "setup", "baud"}

\* Mutant of MustSync: set has no if(!synced), as run has none.
MustSync_noset(c, s) == c.op \in (NeedSync \ {"set"}) /\ c.args /\ ~s

\* The command c starts with an imx_sync when synced is s.
MustSync(c, s) == c.op \in NeedSync /\ c.args /\ ~s

\* main is at the body of a command, past its if(!synced).
At(op) == pc = "cmd" /\ cmd.op = op /\ ~MustSync(cmd, synced)

\* if(!synced) imx_sync(port) of set, download, setup and baud.
AutoSync ==
  /\ pc = "cmd" /\ MustSync(cmd, synced)
  /\ \E r \in Reads : Returned(imx_sync(r), NoArgs)
  /\ pc' = "autosync"
  /\ UNCHANGED <<argv, i, cmd, synced, entry, quit, bauds, dl, progress, step,
                 baud, divisor, term>>

\* if(imx_sync(port)) break; synced = 1; and the command goes on.
AutoSyncRet ==
  /\ pc = "autosync"
  /\ IF call.ret # 0
       THEN Break("sync") /\ synced' = synced
       ELSE /\ synced' = TRUE
            /\ pc' = "cmd"
            /\ call' = NoCall
            /\ UNCHANGED <<quit, i, args, dl, progress, step, baud, divisor>>
  /\ UNCHANGED <<argv, cmd, entry, writes, bauds, term>>

\* set or download with too few parameters.
CmdNoArgs ==
  /\ pc = "cmd" /\ cmd.op \in {"set", "download"} /\ ~cmd.args
  /\ Break("parameters")
  /\ UNCHANGED <<argv, cmd, synced, entry, writes, bauds, term>>

\* set: imx_set_register(port,addr,size,value,0).
CmdSet ==
  /\ At("set") /\ cmd.args
  /\ \E rb \in Reads : \E rc \in Second(rb) :
       Returned(imx_set_register(cmd.addr, cmd.size, cmd.value, FALSE, rb, rc),
                SetArgs(cmd.addr, cmd.size, cmd.value, FALSE))
  /\ pc' = "set"
  /\ UNCHANGED <<argv, i, cmd, synced, entry, quit, bauds, dl, progress, step,
                 baud, divisor, term>>

\* if(imx_set_register(...)) break; i += 4; continue;
CmdSetRet ==
  /\ pc = "set"
  /\ IF call.ret # 0 THEN Break("set") ELSE Continue
  /\ UNCHANGED <<argv, cmd, synced, entry, writes, bauds, term>>

\* download, up to the loop of imx_download: fopen and the size of the image.
CmdDownload ==
  /\ At("download") /\ cmd.args
  /\ \E f \in Files :
       IF f = -1
         THEN /\ Returned(Result("imx_download", <<>>, <<>>, -1,
                                 "unable to open"), NoArgs)
              /\ pc' = "download_ret"
              /\ UNCHANGED <<dl, progress>>
         ELSE /\ dl' = [addr |-> cmd.addr, size |-> f, i |-> 0,
                         base |-> Len(writes)]
              /\ progress' = <<>>
              /\ pc' = "download"
              /\ UNCHANGED <<call, args, writes>>
  /\ UNCHANGED <<argv, i, cmd, synced, entry, quit, bauds, step, baud, divisor,
                 term>>

\* One pass of the loop of imx_download.
DownloadBlock ==
  /\ pc = "download" /\ dl.i < dl.size
  /\ \E r \in Reads :
       LET c == download_block(dl.addr, dl.size, dl.i, r)
       IN /\ Returned(c, NoArgs)
          /\ IF c.ret # 0
               THEN pc' = "download_ret" /\ UNCHANGED <<dl, progress>>
               ELSE /\ dl' = [dl EXCEPT !.i = dl.i + ToWrite(dl.size, dl.i)]
                    /\ progress' = Append(progress, dl'.i)
                    /\ pc' = pc
  /\ UNCHANGED <<argv, i, cmd, synced, entry, quit, bauds, step, baud, divisor,
                 term>>

\* Mutant of DownloadDone: the loop goes on while i <= size.
DownloadDone_off_by_one ==
  /\ pc = "download" /\ dl.i > dl.size
  /\ Returned(Result("imx_download", <<>>, <<>>, 0, "complete"), NoArgs)
  /\ pc' = "download_ret"
  /\ UNCHANGED <<argv, i, cmd, synced, entry, quit, bauds, dl, progress, step,
                 baud, divisor, term>>

\* The loop of imx_download is over: return 0.
DownloadDone ==
  /\ pc = "download" /\ dl.i >= dl.size
  /\ Returned(Result("imx_download", <<>>, <<>>, 0, "complete"), NoArgs)
  /\ pc' = "download_ret"
  /\ UNCHANGED <<argv, i, cmd, synced, entry, quit, bauds, dl, progress, step,
                 baud, divisor, term>>

\* Mutant of CmdDownloadRet: entry = addr is done before the result of
\* imx_download is tested.
CmdDownloadRet_entry_first ==
  /\ pc = "download_ret"
  /\ entry' = cmd.addr
  /\ IF call.ret # 0 THEN Break("download") ELSE Continue
  /\ UNCHANGED <<argv, cmd, synced, writes, bauds, term>>

\* if(imx_download(...)) break; entry = addr; i += 3; continue;
CmdDownloadRet ==
  /\ pc = "download_ret"
  /\ IF call.ret # 0
       THEN Break("download") /\ entry' = entry
       ELSE entry' = cmd.addr /\ Continue
  /\ UNCHANGED <<argv, cmd, synced, writes, bauds, term>>

\* sync: imx_sync(port).
CmdSync ==
  /\ At("sync")
  /\ \E r \in Reads : Returned(imx_sync(r), NoArgs)
  /\ pc' = "sync"
  /\ UNCHANGED <<argv, i, cmd, synced, entry, quit, bauds, dl, progress, step,
                 baud, divisor, term>>

\* if(imx_sync(port)) break; synced = 1; i++; continue;
CmdSyncRet ==
  /\ pc = "sync"
  /\ IF call.ret # 0
       THEN Break("sync") /\ synced' = synced
       ELSE synced' = TRUE /\ Continue
  /\ UNCHANGED <<argv, cmd, entry, writes, bauds, term>>

\* Mutant of CmdSetup: the first register write is left out.
CmdSetup_skip_first ==
  /\ At("setup")
  /\ pc' = "setup"
  /\ step' = 2
  /\ UNCHANGED <<argv, i, cmd, synced, entry, quit, writes, bauds, call, args,
                 dl, progress, baud, divisor, term>>

\* setup: enter imx_setup_system.
CmdSetup ==
  /\ At("setup")
  /\ pc' = "setup"
  /\ step' = 1
  /\ UNCHANGED <<argv, i, cmd, synced, entry, quit, writes, bauds, call, args,
                 dl, progress, baud, divisor, term>>

\* One imx_set_register call of imx_setup_system.
SetupStep ==
  /\ pc = "setup" /\ step <= Len(SetupSequence)
  /\ \E rb \in Reads : \E rc \in Second(rb) :
       Returned(imx_set_register(SetupSequence[step][1], 32,
                                 SetupSequence[step][2], FALSE, rb, rc),
                SetArgs(SetupSequence[step][1], 32, SetupSequence[step][2],
                        FALSE))
  /\ pc' = "setup_ret"
  /\ UNCHANGED <<argv, i, cmd, synced, entry, quit, bauds, dl, progress, step,
                 baud, divisor, term>>

\* Mutant of SetupNext: imx_setup_system returns -1 when a call has failed,
\* and main leaves the loop.
SetupNext_abort ==
  /\ pc = "setup_ret"
  /\ IF call.ret # 0
       THEN Break("setup")
       ELSE /\ call' = NoCall
            /\ args' = NoArgs
            /\ step' = step + 1
            /\ pc' = "setup"
            /\ UNCHANGED <<i, quit, dl, progress, baud, divisor>>
  /\ UNCHANGED <<argv, cmd, synced, entry, writes, bauds, term>>

\* imx_setup_system drops what the call returned and goes to the next one.
SetupNext ==
  /\ pc = "setup_ret"
  /\ call' = NoCall
  /\ args' = NoArgs
  /\ step' = step + 1
  /\ pc' = "setup"
  /\ UNCHANGED <<argv, i, cmd, synced, entry, quit, writes, bauds, dl,
                 progress, baud, divisor, term>>

\* imx_setup_system returns 0: if(imx_setup_system(port)) break; i++; continue;
SetupDone ==
  /\ pc = "setup" /\ step > Len(SetupSequence)
  /\ Continue
  /\ UNCHANGED <<argv, cmd, synced, entry, writes, bauds, term>>

\* baud of the baud command: the parameter, or the default when it is missing
\* or 0.
BaudRate(c) == IF c.baud = 0 THEN DEFAULT_HIGHSPEED ELSE c.baud

\* baud: the rate, and the divisor write of imx_set_baud.
CmdBaud ==
  /\ At("baud")
  /\ baud' = BaudRate(cmd)
  /\ \E rb \in Reads : \E rc \in Second(rb) :
       LET v == Dec32(baud' \div 100)
           c == imx_set_register(UART_DIVISOR, 32, v, FALSE, rb, rc)
       IN /\ Returned(c, SetArgs(UART_DIVISOR, 32, v, FALSE))
          /\ divisor' = c.ret
  /\ pc' = "baud_divisor_ret"
  /\ UNCHANGED <<argv, i, cmd, synced, entry, quit, bauds, dl, progress, step,
                 term>>

\* imx_set_baud drops what the divisor write returned.
BaudNext ==
  /\ pc = "baud_divisor_ret"
  /\ call' = NoCall
  /\ args' = NoArgs
  /\ pc' = "baud_fifo"
  /\ UNCHANGED <<argv, i, cmd, synced, entry, quit, writes, bauds, dl,
                 progress, step, baud, divisor, term>>

\* The FIFO write of imx_set_baud, mismatch ignored.
BaudFifo ==
  /\ pc = "baud_fifo"
  /\ \E rb \in Reads : \E rc \in Second(rb) :
       Returned(imx_set_register(UART_FIFO, 32, FIFO_VALUE, TRUE, rb, rc),
                SetArgs(UART_FIFO, 32, FIFO_VALUE, TRUE))
  /\ pc' = "baud_fifo_ret"
  /\ UNCHANGED <<argv, i, cmd, synced, entry, quit, bauds, dl, progress, step,
                 baud, divisor, term>>

\* imx_set_baud drops what the FIFO write returned, calls set_baud(fd,baud)
\* and returns 0.
BaudLocal ==
  /\ pc = "baud_fifo_ret"
  /\ bauds' = Append(bauds, baud)
  /\ call' = Result("imx_set_baud", <<>>, <<>>, 0, "done")
  /\ args' = NoArgs
  /\ pc' = "baud_ret"
  /\ UNCHANGED <<argv, i, cmd, synced, entry, quit, writes, dl, progress, step,
                 baud, divisor, term>>

\* if(imx_set_baud(port,baud)) break; i++; continue;
CmdBaudRet ==
  /\ pc = "baud_ret"
  /\ IF call.ret # 0 THEN Break("baud") ELSE Continue
  /\ UNCHANGED <<argv, cmd, synced, entry, writes, bauds, term>>

\* Mutant of RunAddr: entry is not used.
RunAddr_param(c, e) == c.addr

\* addr of the run command: the parameter, or entry when it is missing or 0.
RunAddr(c, e) == IF c.addr = Zero32 THEN e ELSE c.addr

\* Mutant of CmdRun: "no address" is found only when no download has been
\* done; after a download, entry is used whatever it is.
CmdRun_entry_flag ==
  /\ At("run")
  /\ LET addr == RunAddr(cmd, entry)
         done == \E j \in 1..(Len(argv) - 1) : argv[j].op = "download"
     IN IF addr = Zero32 /\ ~done
          THEN /\ Break("no address")
               /\ UNCHANGED writes
          ELSE /\ \E rb \in Reads : \E rd \in Second(rb) :
                    Returned(imx_run(addr, rb, rd), NoArgs)
               /\ pc' = "run"
               /\ UNCHANGED <<quit, i, dl, progress, step, baud, divisor>>
  /\ UNCHANGED <<argv, cmd, synced, entry, bauds, term>>

\* run: no address, or imx_run(port,addr).
CmdRun ==
  /\ At("run")
  /\ LET addr == RunAddr(cmd, entry)
     IN IF addr = Zero32
          THEN /\ Break("no address")
               /\ UNCHANGED writes
          ELSE /\ \E rb \in Reads : \E rd \in Second(rb) :
                    Returned(imx_run(addr, rb, rd), NoArgs)
               /\ pc' = "run"
               /\ UNCHANGED <<quit, i, dl, progress, step, baud, divisor>>
  /\ UNCHANGED <<argv, cmd, synced, entry, bauds, term>>

\* if(imx_run(port,addr)) break; i++; continue;
CmdRunRet ==
  /\ pc = "run"
  /\ IF call.ret # 0 THEN Break("run") ELSE Continue
  /\ UNCHANGED <<argv, cmd, synced, entry, writes, bauds, term>>

\* baud of the terminal command.
TermBaud(c) == IF c.baud = 0 THEN DEFAULT_TERMBAUD ELSE c.baud

\* Mutant of CmdTerminal: terminal() registers the handler and returns 0, and
\* main goes on to the next command.
CmdTerminal_returns ==
  /\ At("terminal")
  /\ bauds' = Append(bauds, TermBaud(cmd))
  /\ term' = [term EXCEPT !.fasync = TRUE, !.saio = TRUE]
  /\ Continue
  /\ UNCHANGED <<argv, cmd, synced, entry, writes>>

\* terminal: set_baud(port,baud), then terminal(port) up to
\* fcntl(fd,F_SETFL,FASYNC); from here on input on the port raises SIGIO.
CmdTerminal ==
  /\ At("terminal")
  /\ bauds' = Append(bauds, TermBaud(cmd))
  /\ term' = [term EXCEPT !.fasync = TRUE]
  /\ pc' = "terminal_setup"
  /\ UNCHANGED <<argv, i, cmd, synced, entry, quit, writes, call, args, dl,
                 progress, step, baud, divisor>>

\* sigaction(SIGIO,&saio,NULL) and the tcsetattr of the console: term_recv is
\* the handler and main is at while(1), which it never leaves.
TermSigaction ==
  /\ pc = "terminal_setup"
  /\ term' = [term EXCEPT !.saio = TRUE]
  /\ pc' = "terminal"
  /\ UNCHANGED <<argv, i, cmd, synced, entry, quit, writes, bauds, call, args,
                 dl, progress, step, baud, divisor>>

\* ------------------------------------------------------ the terminal relay
\* The bytes typed at the console (^C and a) and the bytes the device sends
\* (newline and >).
Keys == {3, 97}
Inbound == {10, 62}

\* A byte is typed at the console.
KeyTyped ==
  /\ pc = "terminal" /\ Len(term.typed) < MaxKeys
  /\ \E b \in Keys : term' = [term EXCEPT !.typed = Append(@, b)]
  /\ UNCHANGED <<argv, i, cmd, synced, entry, pc, quit, writes, bauds, call,
                 args, dl, progress, step, baud, divisor>>

\* A byte arrives on the port; past F_SETFL it raises SIGIO.
ByteArrives ==
  /\ pc \in {"terminal_setup", "terminal"}
  /\ Len(term.arrived) < MaxInbound
  /\ \E b \in Inbound :
       term' = [term EXCEPT !.arrived = Append(@, b), !.sigio = term.fasync]
  /\ UNCHANGED <<argv, i, cmd, synced, entry, pc, quit, writes, bauds, call,
                 args, dl, progress, step, baud, divisor>>

\* SIGIO is delivered before sigaction is done: its default action ends the
\* process.
SigioKill ==
  /\ pc = "terminal_setup" /\ term.sigio /\ ~term.saio
  /\ term' = [term EXCEPT !.sigio = FALSE]
  /\ pc' = "killed"
  /\ UNCHANGED <<argv, i, cmd, synced, entry, quit, writes, bauds, call, args,
                 dl, progress, step, baud, divisor>>

\* SIGIO is delivered: term_recv runs on top of main, which waits for it.
TermSignal ==
  /\ pc = "terminal" /\ term.saio /\ term.sigio /\ term.recv = "idle"
  /\ term' = [term EXCEPT !.sigio = FALSE, !.recv = "read"]
  /\ UNCHANGED <<argv, i, cmd, synced, entry, pc, quit, writes, bauds, call,
                 args, dl, progress, step, baud, divisor>>

\* len = read(port,&buf,1) returns 1.
RecvByte ==
  /\ pc = "terminal" /\ term.recv = "read"
  /\ term.taken < Len(term.arrived)
  /\ term' = [term EXCEPT !.buf = term.arrived[term.taken + 1],
                          !.taken = @ + 1, !.recv = "write"]
  /\ UNCHANGED <<argv, i, cmd, synced, entry, pc, quit, writes, bauds, call,
                 args, dl, progress, step, baud, divisor>>

\* len = read(port,&buf,1) returns 0, nothing has arrived within VTIME: the
\* loop of term_recv ends and the handler returns.
RecvNone ==
  /\ pc = "terminal" /\ term.recv = "read"
  /\ term.taken = Len(term.arrived)
  /\ term' = [term EXCEPT !.recv = "idle"]
  /\ UNCHANGED <<argv, i, cmd, synced, entry, pc, quit, writes, bauds, call,
                 args, dl, progress, step, baud, divisor>>

\* len = read(port,&buf,1) returns -1: printf("sbm: Read error\n"); return;
RecvError ==
  /\ pc = "terminal" /\ term.recv = "read"
  /\ term.errors < MaxErrors
  /\ term' = [term EXCEPT !.recv = "idle", !.errors = @ + 1,
                          !.errat = IF @ = -1 THEN Len(term.arrived) ELSE @]
  /\ UNCHANGED <<argv, i, cmd, synced, entry, pc, quit, writes, bauds, call,
                 args, dl, progress, step, baud, divisor>>

\* Mutant of RecvWrite: the byte is written and the handler returns, without
\* reading on.
RecvWrite_once ==
  /\ pc = "terminal" /\ term.recv = "write"
  /\ term' = [term EXCEPT !.out = Append(@, term.buf), !.buf = -1,
                          !.recv = "idle"]
  /\ UNCHANGED <<argv, i, cmd, synced, entry, pc, quit, writes, bauds, call,
                 args, dl, progress, step, baud, divisor>>

\* write(1,&buf,1), and back to the read of the loop; buf is not used again
\* before that read sets it.
RecvWrite ==
  /\ pc = "terminal" /\ term.recv = "write"
  /\ term' = [term EXCEPT !.out = Append(@, term.buf), !.buf = -1,
                          !.recv = "read"]
  /\ UNCHANGED <<argv, i, cmd, synced, entry, pc, quit, writes, bauds, call,
                 args, dl, progress, step, baud, divisor>>

\* read(0,&c,1) returns a byte.  (When it returns less than 1, interrupted by
\* SIGIO or at the end of the input, main reads again: no change of state.)
TermRead ==
  /\ pc = "terminal" /\ term.recv = "idle" /\ term.c = -1
  /\ term.nread < Len(term.typed)
  /\ term' = [term EXCEPT !.c = term.typed[term.nread + 1], !.nread = @ + 1]
  /\ UNCHANGED <<argv, i, cmd, synced, entry, pc, quit, writes, bauds, call,
                 args, dl, progress, step, baud, divisor>>

\* write(fd,&c,1)
TermWrite ==
  /\ pc = "terminal" /\ term.recv = "idle" /\ term.c # -1
  /\ term' = [term EXCEPT !.sent = Append(@, term.c), !.c = -1]
  /\ UNCHANGED <<argv, i, cmd, synced, entry, pc, quit, writes, bauds, call,
                 args, dl, progress, step, baud, divisor>>

\* No command of this name.
CmdUnknown ==
  /\ At("unknown")
  /\ Break("unknown command")
  /\ UNCHANGED <<argv, cmd, synced, entry, writes, bauds, term>>

\* while(i<argc) is false: close(port), return 0.
Finish ==
  /\ pc = "loop" /\ Len(argv) >= 1
  /\ pc' = "done"
  /\ quit' = "end"
  /\ UNCHANGED <<argv, i, cmd, synced, entry, writes, bauds, call, args, dl,
                 progress, step, baud, divisor, term>>

Next ==
  \/ Fetch
  \/ AutoSync
  \/ AutoSyncRet
  \/ CmdNoArgs
  \/ CmdSet
  \/ CmdSetRet
  \/ CmdDownload
  \/ DownloadBlock
  \/ DownloadDone
  \/ CmdDownloadRet
  \/ CmdSync
  \/ CmdSyncRet
  \/ CmdSetup
  \/ SetupStep
  \/ SetupNext
  \/ SetupDone
  \/ CmdBaud
  \/ BaudNext
  \/ BaudFifo
  \/ BaudLocal
  \/ CmdBaudRet
  \/ CmdRun
  \/ CmdRunRet
  \/ CmdTerminal
  \/ TermSigaction
  \/ CmdUnknown
  \/ Finish

Spec == Init /\ [][Next]_vars

\* The program runs on: main is one thread, every read returns within VTIME
\* and nothing else blocks, so a step that can be taken is taken.
SpecLive == Init /\ [][Next]_vars /\ WF_vars(Next)

\* ------------------------------------------------ the terminal and its relay
\* Command lines made of sync, terminal and unknown commands, with the console
\* and the device as the environment of the relay.
TermCommands == {"sync", "terminal", "unknown"}
TermFetch == Fetch /\ cmd'.op \in TermCommands

NextTerm ==
  \/ TermFetch
  \/ CmdSync
  \/ CmdSyncRet
  \/ CmdUnknown
  \/ Finish
  \/ CmdTerminal
  \/ TermSigaction
  \/ SigioKill
  \/ KeyTyped
  \/ ByteArrives
  \/ TermSignal
  \/ RecvByte
  \/ RecvNone
  \/ RecvError
  \/ RecvWrite
  \/ TermRead
  \/ TermWrite

SpecTerm == Init /\ [][NextTerm]_vars

\* ------------------------------------------- a command line of four commands
\* 9599 = 0x0000257F
DIVISOR_9599 == <<0, 0, 37, 127>>

\* sbm sync set 0x1000A0A4 32 9599 download img.bin 0xC0000000 run
Scenario ==
  << Cmd("sync", Zero32, 0, Zero32, 0, TRUE),
     Cmd("set", UART_DIVISOR, 32, DIVISOR_9599, 0, TRUE),
     Cmd("download", RAM, 0, Zero32, 0, TRUE),
     Cmd("run", Zero32, 0, Zero32, 0, TRUE) >>

\* cmd = argv[i], of this command line.
ScenarioFetch ==
  /\ pc = "loop" /\ i <= Len(Scenario)
  /\ argv' = Append(argv, Scenario[i])
  /\ cmd' = Scenario[i]
  /\ pc' = "cmd"
  /\ UNCHANGED <<i, synced, entry, quit, writes, bauds, call, args, dl,
                 progress, step, baud, divisor, term>>

\* download, with an image that fopen can open.
ScenarioDownload == CmdDownload /\ pc' = "download"

\* while(i<argc) is false at the end of this command line.
ScenarioFinish == Finish /\ i > Len(Scenario)

NextScenario ==
  \/ ScenarioFetch
  \/ CmdSync
  \/ CmdSyncRet
  \/ CmdSet
  \/ CmdSetRet
  \/ ScenarioDownload
  \/ DownloadBlock
  \/ DownloadDone
  \/ CmdDownloadRet
  \/ CmdRun
  \/ CmdRunRet
  \/ ScenarioFinish

SpecScenario == Init /\ [][NextScenario]_vars

\* ------------------------------------------------- imx_set_register alone
\* imx_set_register called once, with arguments of its whole domain.
MaxWidth == 33
UnitWidths == 0..MaxWidth \cup {256 + 8, 256 + 32}
UnitWords == {Zero32, RAM, FIFO_VALUE}

InitUnit ==
  /\ argv = <<>>
  /\ i = 1
  /\ cmd = NoCmd
  /\ synced = FALSE
  /\ entry = Zero32
  /\ pc = "unit"
  /\ quit = ""
  /\ writes = <<>>
  /\ bauds = <<>>
  /\ call = NoCall
  /\ args = NoArgs
  /\ dl = NoDl
  /\ progress = <<>>
  /\ step = 1
  /\ baud = 0
  /\ divisor = 0
  /\ term = NoTerm

UnitSetRegister ==
  /\ pc = "unit"
  /\ \E a \in UnitWords, l \in UnitWidths, v \in UnitWords, g \in BOOLEAN :
       \E rb \in Reads : \E rc \in Second(rb) :
         Returned(imx_set_register(a, l, v, g, rb, rc), SetArgs(a, l, v, g))
  /\ pc' = "unit_ret"
  /\ UNCHANGED <<argv, i, cmd, synced, entry, quit, bauds, dl, progress, step,
                 baud, divisor, term>>

SpecUnit == InitUnit /\ [][UnitSetRegister]_vars

\* ------------------------------------------------------------- properties
Full(r) == r.n = WORD_LEN
Last(q) == q[Len(q)]
IsPacket(w, h) == w.kind = "packet" /\ w.header = h
\* The packets imx_sync and imx_run's handshake send.
SyncPacket == Packet(IMX_SYNC, Zero32, 0, Zero32, Zero32, 0)
\* The value of a 32-bit word below 2^31 and the word of a value.
Word(n) == Add32(Zero32, n)

\* C1: while a baud command runs whose divisor write (0x1000A0A4) did not
\* return success, no step calls set_baud: the local baud rate is set only
\* after the device has acknowledged the divisor write.
C1_LocalBaudOnlyAfterDivisorAck ==
  [][(cmd.op = "baud" /\ divisor # 0) => bauds' = bauds]_vars

\* C2: when a call has returned failure (a Timeout or ProtocolMismatch that
\* is not ignored), the next step of the program leaves the command loop and
\* writes nothing more to the port.  The register writes of setup, whose
\* failures setup is to pass over (C18), are left out.
C2_StopsAtFirstFailure ==
  [][(call.ret # 0 /\ cmd.op # "setup") =>
       (pc' = "done" /\ writes' = writes)]_vars

\* C3: while the session is not synced, no SET-REGISTER packet (0x0202) and
\* no DOWNLOAD/RUN packet (0x0404) has been written to the port.
C3_NoCommandPacketUnsynced ==
  ~synced =>
    \A k \in 1..Len(writes) :
      ~IsPacket(writes[k], IMX_SREG) /\ ~IsPacket(writes[k], IMX_DWNL)

\* C3, amended: while the session is not synced, nothing has been written to
\* the port but SYNC packets and the packets of run (0x0404 with end = 0xaa):
\* no SET-REGISTER packet, no block header of a download and no payload.
C3_OnlyRunPacketsUnsynced ==
  ~synced =>
    \A k \in 1..Len(writes) :
      \/ IsPacket(writes[k], IMX_SYNC)
      \/ IsPacket(writes[k], IMX_DWNL) /\ writes[k].end = END_RUN

\* C3, witness: a run has written its packet in a session that is not synced.
C3_Witness ==
  /\ ~synced
  /\ pc = "run"
  /\ Len(writes) > 0
  /\ IsPacket(writes[1], IMX_DWNL)

\* C4: synced starts false; a step changes it only from false to true, and
\* only the step that finds that an imx_sync whose read returned 0xf0f0f0f0
\* has succeeded; no step of a run command changes it.
C4_SyncedOnlyBySync ==
  /\ ~synced
  /\ [][((synced' # synced) =>
            (/\ ~synced /\ synced'
             /\ pc \in {"sync", "autosync"}
             /\ call.fn = "imx_sync"
             /\ call.wr = <<SyncPacket>>
             /\ call.rd = <<[n |-> WORD_LEN, word |-> SYNC_ACK]>>))
         /\ ((cmd.op = "run") => (synced' = synced))]_vars

\* C4, witness: the post-run handshake of a run has succeeded and the session
\* is still not synced.
C4_Witness ==
  /\ pc = "run"
  /\ call.fn = "imx_run"
  /\ Len(call.wr) = 2
  /\ call.ret = 0
  /\ ~synced

\* C5: imx_sync writes one SYNC packet (header 0x0505, every other field 0)
\* and reads once; it returns 0 exactly when the read returned the 4 bytes
\* 0xf0f0f0f0; another full word is reported as an illegal response, a read
\* of fewer than 4 bytes as a timeout.
C5_SyncOutcome ==
  call.fn = "imx_sync" =>
    /\ call.wr = <<[kind |-> "packet", header |-> IMX_SYNC, address |-> Zero32,
                    type |-> 0, length |-> Zero32, data |-> Zero32, end |-> 0,
                    offset |-> 0, count |-> 0]>>
    /\ Len(writes) >= 1 /\ Last(writes) = call.wr[1]
    /\ Len(call.rd) = 1
    /\ call.ret = 0 <=> (Full(call.rd[1]) /\ call.rd[1].word = SYNC_ACK)
    /\ call.ret \in {0, -1}
    /\ (Full(call.rd[1]) /\ call.rd[1].word # SYNC_ACK)
         => call.msg = "illegal response"
    /\ ~Full(call.rd[1]) => call.msg = "timeout"

\* C5, witness: imx_sync has read a full word that is not 0xf0f0f0f0.
C5_Witness ==
  /\ call.fn = "imx_sync"
  /\ Full(call.rd[1])
  /\ call.rd[1].word = ACK_B
  /\ call.ret = -1

\* C6: imx_set_register with a width other than 8, 16 and 32 returns -1
\* (illegal register size), writes nothing and reads nothing, whatever the
\* address, the value and ignore.
C6_InvalidWidthNoIO ==
  (call.fn = "imx_set_register" /\ args.len \notin {8, 16, 32}) =>
    /\ call.ret = -1
    /\ call.msg = "illegal register size"
    /\ call.wr = <<>>
    /\ call.rd = <<>>
    /\ writes = <<>>

\* C6, witness: imx_set_register was called with width 264 and ignore set.
C6_Witness ==
  /\ call.fn = "imx_set_register"
  /\ args.len = 256 + 8
  /\ args.ignore
  /\ args.addr = RAM

\* C7: imx_set_register with width 8, 16 or 32 writes one SET-REGISTER packet
\* and reads up to two words (the second after a full first).  Without ignore
\* it returns 0 exactly when the words are 0x56787856 and 0x128a8a12, reports
\* a timeout when a read is short and an illegal response when both are full
\* and differ; with ignore it returns 0 in all of these cases.
C7_SetRegisterOutcome ==
  (call.fn = "imx_set_register" /\ args.len \in {8, 16, 32}) =>
    LET n == Len(call.rd)
        short == ~Full(call.rd[n])
        good == /\ n = 2
                /\ Full(call.rd[1]) /\ call.rd[1].word = ACK_B
                /\ Full(call.rd[2]) /\ call.rd[2].word = ACK_C
    IN /\ call.wr = <<[kind |-> "packet", header |-> IMX_SREG,
                       address |-> SWAPDWORD(args.addr), type |-> args.len,
                       length |-> Zero32, data |-> SWAPDWORD(args.value),
                       end |-> 0, offset |-> 0, count |-> 0]>>
       /\ writes = call.wr
       /\ n \in {1, 2}
       /\ n = 2 <=> Full(call.rd[1])
       /\ call.ret \in {0, -1}
       /\ args.ignore => call.ret = 0
       /\ ~args.ignore =>
            /\ call.ret = 0 <=> good
            /\ short => call.msg = "timeout"
            /\ (~short /\ ~good) => call.msg = "illegal response"

\* C7, witness: with ignore set, two full words that are not the expected
\* ones, and imx_set_register has returned 0.
C7_Witness ==
  /\ call.fn = "imx_set_register"
  /\ args.len = 16
  /\ args.ignore
  /\ Len(call.rd) = 2
  /\ Full(call.rd[2])
  /\ call.rd[1].word = ACK_B
  /\ call.rd[2].word = ACK_B
  /\ call.ret = 0

\* ceil(S/4096), and the length of block k of an image of S bytes.
Blocks(S) == (S + CHUNK_SIZE - 1) \div CHUNK_SIZE
BlockLen(S, k) ==
  IF k < Blocks(S) - 1 THEN CHUNK_SIZE
  ELSE IF S % CHUNK_SIZE = 0 THEN CHUNK_SIZE ELSE S % CHUNK_SIZE

\* C8: the offsets imx_download reports increase strictly; when it returns
\* after all block headers were acked it has written ceil(S/4096) headers,
\* each followed by its block; header k has address addr + 4096*k (in 32-bit
\* arithmetic) and length 4096, the last one S mod 4096 (4096 when that is
\* 0); and the last offset reported is S.
C8_BlocksOfDownload ==
  /\ \A k \in 1..Len(progress) :
       /\ progress[k] > 0
       /\ k > 1 => progress[k] > progress[k - 1]
  /\ (pc = "download_ret" /\ call.msg = "complete") =>
       LET S == dl.size
           n == Blocks(S)
       IN /\ Len(writes) = dl.base + 2 * n
          /\ Len(progress) = n
          /\ n > 0 => progress[n] = S
          /\ \A k \in 0..(n - 1) :
               LET h == writes[dl.base + 2 * k + 1]
                   d == writes[dl.base + 2 * k + 2]
               IN /\ IsPacket(h, IMX_DWNL)
                  /\ SWAPDWORD(h.address) = Add32(dl.addr, CHUNK_SIZE * k)
                  /\ SWAPDWORD(h.length) = Word(BlockLen(S, k))
                  /\ h.type = 0 /\ h.data = Zero32 /\ h.end = 0
                  /\ d.kind = "payload"
                  /\ d.offset = CHUNK_SIZE * k
                  /\ d.count = BlockLen(S, k)
                  /\ progress[k + 1] = CHUNK_SIZE * k + BlockLen(S, k)

\* C8, witness: a download of 4097 bytes to 0xFFFFF000 has returned after two
\* acked blocks (the address of the second header wraps to 0).
C8_Witness ==
  /\ pc = "download_ret"
  /\ call.msg = "complete"
  /\ dl.size = CHUNK_SIZE + 1
  /\ dl.addr = TOP
  /\ Len(progress) = 2

\* C9: every block written to the port follows its own header; after a pass
\* of the loop of imx_download whose header was answered with 0x56787856 the
\* block is the last thing written; after one whose header was answered with
\* a short read or another word, imx_download has returned -1 and that header
\* is the last thing written: no byte of the block, no later header.
C9_PayloadOnlyAfterAck ==
  /\ \A k \in 1..Len(writes) :
       writes[k].kind = "payload" =>
         /\ k > 1
         /\ IsPacket(writes[k - 1], IMX_DWNL)
         /\ writes[k - 1].end = 0
         /\ SWAPDWORD(writes[k - 1].length) = Word(writes[k].count)
  /\ (call.fn = "imx_download" /\ Len(call.rd) = 1) =>
       IF Full(call.rd[1]) /\ call.rd[1].word = ACK_B
         THEN /\ call.ret = 0
              /\ pc = "download"
              /\ Len(writes) >= 2
              /\ Last(writes).kind = "payload"
         ELSE /\ call.ret = -1
              /\ pc \in {"download_ret", "done"}
              /\ Len(writes) = dl.base + 2 * Len(progress) + 1
              /\ IsPacket(Last(writes), IMX_DWNL)
              /\ Last(writes).end = 0
              /\ dl.i < dl.size

\* C9, witness: the header of the second block of a download was answered
\* with a full word that is not the ack, and the program has left the loop.
C9_Witness ==
  /\ pc = "done"
  /\ call.fn = "imx_download"
  /\ Len(call.rd) = 1
  /\ Full(call.rd[1])
  /\ call.ret = -1
  /\ Len(progress) = 1

\* The download commands before the running command: they have all succeeded.
Downloaded == {j \in 1..(Len(argv) - 1) : argv[j].op = "download"}
LastDownloaded == CHOOSE j \in Downloaded : \A l \in Downloaded : l <= j

\* C10: a run with no address (or address 0) and no download before it leaves
\* the loop with "no address" and writes nothing; after a download to an
\* address A other than 0 it does what imx_run(port,A) does: the same packets,
\* the same result for the same responses.
C10_RunWithoutAddress ==
  [][(pc = "cmd" /\ cmd.op = "run" /\ cmd.addr = Zero32) =>
       IF Downloaded = {}
         THEN pc' = "done" /\ quit' = "no address" /\ writes' = writes
         ELSE LET A == argv[LastDownloaded].addr
              IN A # Zero32 =>
                   /\ pc' = "run"
                   /\ \E rb \in Reads, rd \in Reads : call' = imx_run(A, rb, rd)
                   /\ call'.wr[1] = [kind |-> "packet", header |-> IMX_DWNL,
                                     address |-> SWAPDWORD(A), type |-> 0,
                                     length |-> Zero32, data |-> Zero32,
                                     end |-> END_RUN, offset |-> 0, count |-> 0]
                   /\ writes' = writes \o call'.wr]_vars

\* C10, witness: after a download to 0xC0000000, a run with no address has
\* called imx_run, which has returned 0.
C10_Witness ==
  /\ pc = "run"
  /\ cmd.op = "run"
  /\ cmd.addr = Zero32
  /\ Downloaded # {}
  /\ entry = RAM
  /\ call.fn = "imx_run"
  /\ call.ret = 0

\* C11: imx_run writes the packet with header 0x0404, the address and end =
\* 0xaa and reads one word; it writes the second packet (header 0x0505, all
\* else 0) and reads a second word exactly when the first word is 0x56787856;
\* it returns 0 exactly when the first word is 0x56787856 and the second is
\* 0x08888888 or 0x88888888; it reports a timeout when its last read is short
\* and an illegal response when its last read is a full word of another value.
C11_RunTwoPhase ==
  call.fn = "imx_run" =>
    LET A == IF cmd.addr = Zero32 THEN entry ELSE cmd.addr
        n == Len(call.rd)
        acked == Full(call.rd[1]) /\ call.rd[1].word = ACK_B
    IN /\ cmd.op = "run"
       /\ n \in {1, 2}
       /\ Len(call.wr) = n
       /\ call.wr[1] = [kind |-> "packet", header |-> IMX_DWNL,
                        address |-> SWAPDWORD(A), type |-> 0,
                        length |-> Zero32, data |-> Zero32, end |-> END_RUN,
                        offset |-> 0, count |-> 0]
       /\ (n = 2) <=> acked
       /\ (n = 2) =>
            call.wr[2] = [kind |-> "packet", header |-> IMX_SYNC,
                          address |-> Zero32, type |-> 0, length |-> Zero32,
                          data |-> Zero32, end |-> 0, offset |-> 0,
                          count |-> 0]
       /\ Len(writes) >= n
       /\ SubSeq(writes, Len(writes) - n + 1, Len(writes)) = call.wr
       /\ call.ret \in {0, -1}
       /\ (call.ret = 0) <=>
            (/\ acked
             /\ Full(call.rd[n])
             /\ call.rd[n].word \in {RUN_ACK_LO, RUN_ACK_HI})
       /\ ~Full(call.rd[n]) => call.msg = "timeout"
       /\ (Full(call.rd[n]) /\ call.ret # 0) => call.msg = "illegal response"

\* C11, witness: the first word was 0x56787856, the second read was short,
\* and the run command has ended the loop.
C11_Witness ==
  /\ pc = "done"
  /\ call.fn = "imx_run"
  /\ Len(call.wr) = 2
  /\ call.rd[1].word = ACK_B
  /\ ~Full(call.rd[2])
  /\ call.msg = "timeout"

\* C12: entry starts as 0 and a step changes it only when imx_download has
\* returned 0 after every block of the image was acked, and then to the
\* address of that download; the step after an imx_download that returned -1
\* leaves it as it was, and so does every step of another command.
C12_EntryOnlyByDownload ==
  /\ entry = Zero32
  /\ [][((entry' # entry) =>
            (/\ cmd.op = "download"
             /\ pc = "download_ret"
             /\ call.fn = "imx_download"
             /\ call.ret = 0
             /\ dl.i = dl.size
             /\ Len(progress) = Blocks(dl.size)
             /\ entry' = cmd.addr
             /\ entry' = dl.addr))
         /\ ((pc = "download_ret" /\ call.ret # 0) => (entry' = entry))
         /\ ((cmd.op # "download") => (entry' = entry))]_vars

\* C12, witness: after a download to 0xC0000000, a download to 0xFFFFF000 has
\* failed at its second block and entry is still 0xC0000000.
C12_Witness ==
  /\ pc = "done"
  /\ quit = "download"
  /\ cmd.addr = TOP
  /\ Len(progress) = 1
  /\ entry = RAM

\* What the device of the scenario answers to the call c: 0xf0f0f0f0 to the
\* sync, 0x56787856 and 0x128a8a12 to the register write, 0x56787856 to each
\* block header, 0x56787856 and 0x88888888 to the run.
Answer(w) == [n |-> WORD_LEN, word |-> w]
Answered(c) ==
  CASE c.fn = "imx_sync" -> c.rd = <<Answer(SYNC_ACK)>>
    [] c.fn = "imx_set_register" -> c.rd = <<Answer(ACK_B), Answer(ACK_C)>>
    [] c.fn = "imx_download" ->
         \A k \in 1..Len(c.rd) : c.rd[k] = Answer(ACK_B)
    [] c.fn = "imx_run" -> c.rd = <<Answer(ACK_B), Answer(RUN_ACK_HI)>>
    [] OTHER -> FALSE

\* C13: on the command line sync, set 0x1000A0A4 32 9599, download to
\* 0xC0000000, run: a call that the device has answered as in the scenario
\* returns 0; the loop is left before the end of the line only after a call
\* that was answered otherwise; and when the loop is left at the end of the
\* line, all four commands have succeeded, the first thing written was the
\* one SYNC packet before the register write, the last were the packets of a
\* run at 0xC0000000, and entry is 0xC0000000.
C13_Scenario ==
  /\ (call.fn # "none" /\ Answered(call)) => call.ret = 0
  /\ (pc = "done" /\ quit # "end") => (call.ret # 0 /\ ~Answered(call))
  /\ (pc = "done" /\ quit = "end") =>
       LET n == Len(writes)
       IN /\ i = 5
          /\ argv = Scenario
          /\ synced
          /\ entry = RAM
          /\ n >= 4
          /\ writes[1] = [kind |-> "packet", header |-> IMX_SYNC,
                          address |-> Zero32, type |-> 0, length |-> Zero32,
                          data |-> Zero32, end |-> 0, offset |-> 0,
                          count |-> 0]
          /\ writes[2] = [kind |-> "packet", header |-> IMX_SREG,
                          address |-> <<164, 160, 0, 16>>, type |-> 32,
                          length |-> Zero32, data |-> <<127, 37, 0, 0>>,
                          end |-> 0, offset |-> 0, count |-> 0]
          /\ \A k \in 3..n : ~IsPacket(writes[k], IMX_SREG)
          /\ \A k \in 3..(n - 2) :
               \/ writes[k].kind = "payload"
               \/ IsPacket(writes[k], IMX_DWNL) /\ writes[k].end = 0
          /\ writes[n - 1] = [kind |-> "packet", header |-> IMX_DWNL,
                              address |-> <<0, 0, 0, 192>>, type |-> 0,
                              length |-> Zero32, data |-> Zero32,
                              end |-> END_RUN, offset |-> 0, count |-> 0]
          /\ IsPacket(writes[n], IMX_SYNC)

\* C13, witness: the four commands have succeeded with an image of two
\* blocks.
C13_Witness ==
  /\ pc = "done"
  /\ quit = "end"
  /\ i = 5
  /\ Len(writes) = 8
  /\ writes[6].kind = "payload"
  /\ entry = RAM

\* q is the start of r.
Prefix(q, r) == Len(q) <= Len(r) /\ SubSeq(r, 1, Len(q)) = q

\* C14: once term_recv has reported a read error, no byte that arrived on the
\* port after the error is written to standard output (standard output holds
\* the bytes in their order of arrival, so none past those that had arrived
\* when the error was reported), while the bytes typed at the console are
\* still written to the port, in order.
C14_NoRelayAfterReadError ==
  /\ Prefix(term.out, term.arrived)
  /\ Prefix(term.sent, term.typed)
  /\ term.errat >= 0 => Len(term.out) <= term.errat

\* The state of main and of the function it has called: what the commands
\* read and change.
command ==
  <<argv, i, cmd, synced, entry, quit, writes, bauds, call, args, dl,
    progress, step, baud, divisor>>

\* C15: SIGIO is asked for and term_recv is made its handler only by the
\* steps that enter the terminal; term_recv is the handler, and runs, only
\* while main is inside terminal(); and once main is inside terminal() it
\* stays there (or the process is ended by a signal): no later step fetches
\* a command, runs one, writes a packet or changes what the commands use.
C15_TerminalIsFinal ==
  /\ ~term.fasync /\ ~term.saio
  /\ [](term.saio => pc = "terminal")
  /\ [](term.recv # "idle" => (pc = "terminal" /\ term.saio))
  /\ [][((term.fasync' # term.fasync) =>
            (pc = "cmd" /\ cmd.op = "terminal" /\ pc' = "terminal_setup"))
         /\ ((term.saio' # term.saio) =>
               (pc = "terminal_setup" /\ pc' = "terminal"))
         /\ ((pc \in {"terminal_setup", "terminal", "killed"}) =>
               (/\ pc' \in {"terminal_setup", "terminal", "killed"}
                /\ command' = command))]_vars

\* C15, witness: after a sync, main is inside terminal(), it has written one
\* typed byte to the port, and term_recv is running.
C15_Witness ==
  /\ pc = "terminal"
  /\ Len(argv) = 2
  /\ argv[1].op = "sync"
  /\ synced
  /\ Len(term.sent) = 1
  /\ term.recv = "write"

SetupAlone ==
  /\ Len(argv) >= 1
  /\ argv[1].op = "setup"
  /\ i = 2
  /\ pc = "loop"

\* w is the SET-REGISTER packet of width 32 for row k of the table.
IsSetupPacket(w, k) ==
  /\ IsPacket(w, IMX_SREG)
  /\ w.type = 32
  /\ w.address = SWAPDWORD(SetupSequence[k][1])
  /\ w.data = SWAPDWORD(SetupSequence[k][2])
  /\ w.length = Zero32
  /\ w.end = 0

\* C17: when setup has run, it has written exactly 19 SET-REGISTER packets,
\* all of width 32, among them 8 consecutive writes to one address.
C17_SetupSends19 ==
  SetupAlone =>
    /\ Len(writes) = 1 + 19
    /\ \A k \in 2..Len(writes) :
         IsPacket(writes[k], IMX_SREG) /\ writes[k].type = 32
    /\ \E k \in 2..(Len(writes) - 7) :
         \A j \in 1..7 : writes[k + j].address = writes[k].address

\* C17, amended: while imx_setup_system runs, the last things written are the
\* SET-REGISTER packets of the rows of the table it has got through, in
\* table order; when setup has run, it has written exactly 23 SET-REGISTER
\* packets, all of width 32: rows 1 to 12, then rows 13 to 20, the 8 writes
\* of 0 to 0xC0000000, then rows 21 to 23.
C17_SetupSends23 ==
  /\ pc = "setup" =>
       /\ Len(writes) >= step - 1
       /\ \A k \in 1..(step - 1) :
            IsSetupPacket(writes[Len(writes) - (step - 1) + k], k)
  /\ SetupAlone =>
       /\ Len(writes) = 1 + 23
       /\ IsPacket(writes[1], IMX_SYNC)
       /\ \A k \in 1..23 : IsSetupPacket(writes[1 + k], k)
       /\ \A k \in 1..23 :
            (writes[1 + k].address = <<0, 0, 0, 192>>
               /\ writes[1 + k].data = Zero32) <=> (k \in 13..20)

\* C17, witness: setup has run as the first command, and the last thing
\* written is the packet of row 23.
C17_Witness ==
  /\ SetupAlone
  /\ Len(writes) > 20
  /\ IsSetupPacket(writes[Len(writes)], 23)

\* C18: in imx_setup_system a register write that ended in a timeout or an
\* illegal response changes nothing: after every call, whatever it returned,
\* the next step goes to the next row; the write of each row is sent when its
\* turn comes; after the last row main goes on to the next command; and main
\* leaves the loop in a setup command only when the sync before it has
\* failed (or, after it, at the end of the line), never because of a
\* register write.
C18_SetupGoesOn ==
  /\ []((pc = "done" /\ cmd.op = "setup") =>
          (quit \in {"sync", "end"} /\ step = 1))
  /\ [][((pc = "setup_ret") =>
            (/\ pc' = "setup"
             /\ step' = step + 1
             /\ writes' = writes
             /\ quit' = quit))
         /\ ((pc = "setup" /\ step <= 23) =>
               (/\ pc' = "setup_ret"
                /\ step' = step
                /\ Len(writes') = Len(writes) + 1
                /\ IsSetupPacket(writes'[Len(writes')], step)))
         /\ ((pc = "setup" /\ step > 23) =>
               (/\ pc' = "loop"
                /\ i' = i + 1
                /\ quit' = ""
                /\ writes' = writes))]_vars

\* C18, witness: setup is the second command, the device has answered the
\* write of row 22 with a wrong word, and imx_set_register has returned -1.
C18_Witness ==
  /\ pc = "setup_ret"
  /\ Len(argv) = 2
  /\ step = 22
  /\ call.ret = -1
  /\ call.msg = "illegal response"

\* C19: every command ends, with main back at its loop (success), out of it
\* (a failure) or in the terminal; the program reaches the end of its loop or
\* the terminal; and on the way a call makes at most 2 writes and 2 reads,
\* imx_download at most one header, one read and one block for each 4096
\* bytes of the image, imx_setup_system one call for each of its 23 rows; a
\* call that returns -1 has named its failure.
C19_CommandsTerminate ==
  /\ (pc = "cmd") ~> (pc \in {"loop", "done", "terminal"})
  /\ <>(pc \in {"done", "terminal"})
  /\ [](/\ Len(call.wr) <= 2 /\ Len(call.rd) <= 2
        /\ (pc \in {"download", "download_ret"}
              /\ call.msg # "unable to open") =>
             /\ dl.i <= dl.size
             /\ Len(progress) <= Blocks(dl.size)
             /\ Len(writes) - dl.base <= 2 * Blocks(dl.size)
        /\ step <= 23 + 1
        /\ call.ret # 0 =>
             (/\ call.ret = -1
              /\ call.msg \in {"timeout", "illegal response",
                                "illegal register size", "unable to open"}))

\* C19, witness: a line of two downloads has run to its end, the second one
\* of an image of two blocks.
C19_Witness ==
  /\ pc = "done"
  /\ quit = "end"
  /\ Len(argv) = 2
  /\ argv[1].op = "download"
  /\ argv[2].op = "download"
  /\ Len(writes) >= 1 + 2 + 4

====
